---------------------------- MODULE Spec2Model ----------------------------
(***************************************************************************)
(* Model of advance_etl.py: extract -> transform_and_model_data -> load.   *)
(*                                                                         *)
(* A DataFrame is a sequence of rows (records); position i of the sequence *)
(* is the row at positional index i-1.  A nullable cell is Null (<<>>) or  *)
(* Val(x) (<<x>>): customer_name in the raw rows, product_id in the rows   *)
(* a left merge produces, and the optional values df_raw / raw_file.       *)
(***************************************************************************)
EXTENDS Integers, Sequences, FiniteSets, TLC

VARIABLES
    pc,               \* position of the __main__ block
    raw_file,         \* content of RAW_FILE: Val(batch), or Null when unreadable
    df_raw,           \* main's df_raw: Null (None) or Val(batch)
    df_quarantine,    \* transform's df_quarantine
    df_clean,         \* transform's df_clean (with total_amount)
    dim,              \* main's dim  (dim_product frame)
    fact,             \* main's fact (fact_sales frame)
    quarantine_file,  \* rows held by QUARANTINE_FILE (<<>>: nothing written)
    db,               \* tables of DB_NAME: [dim_product, fact_sales]
    log_load,         \* what load_data logged: "none", "completed", "failed"
    prev_log,         \* history: log_load of the previous invocation
    repeat            \* history: this invocation's source equals the previous one's

vars == <<pc, raw_file, df_raw, df_quarantine, df_clean, dim, fact,
          quarantine_file, db, log_load, prev_log, repeat>>

----------------------------------------------------------------------------
(* Bounds *)

\* longest batch delivered to the single-run specification
MaxLen == 4
\* longest batch delivered to the repeated-run specification
MaxRunLen == 2

----------------------------------------------------------------------------
(* Nullable cells *)

Null == <<>>
Val(x) == <<x>>
IsNull(v) == v = Null
Get(v) == v[1]

Range(s) == {s[i] : i \in 1..Len(s)}

----------------------------------------------------------------------------
(* Input rows *)

Row(oid, name, prod, cat, price, qty, date) ==
    [order_id |-> oid, customer_name |-> name, product |-> prod,
     category |-> cat, price |-> price, quantity |-> qty,
     transaction_date |-> date]

\* the six rows generate_dummy_data writes
DummyData ==
    << Row(101, Val("Alice"),   "Laptop",   "Electronics", 1200, 1, "2023-10-01"),
       Row(102, Val("Bob"),     "Mouse",    "Accessories",   25, 2, "2023-10-01"),
       Row(103, Val("Charlie"), "Keyboard", "Accessories",  -50, 1, "2023-10-01"),
       Row(104, Val("David"),   "Monitor",  "Electronics",  300, 2, "2023-10-02"),
       Row(105, Null,           "Mouse",    "Accessories",   25, 5, "2023-10-02"),
       Row(106, Val("Frank"),   "Laptop",   "Electronics", 1200, 1, "2023-10-02") >>

\* rows an upstream delivery may contain: the dummy rows, and rows that
\* differ from them in one column of the natural key, have price 0, have
\* both defects, or repeat an order_id
SampleRows ==
    Range(DummyData) \cup
    { Row(107, Val("Grace"), "Monitor", "Electronics",    0, 3, "2023-10-03"),
      Row(108, Val("Heidi"), "Laptop",  "Electronics",   25, 2, "2023-10-03"),
      Row(109, Null,         "Keyboard", "Accessories", -50, 1, "2023-10-03"),
      Row(101, Val("Ivan"),  "Mouse",   "Electronics",   25, 3, "2023-10-03") }

\* rows of the repeated-run specification: two valid rows, one invalid row
RunRows == {DummyData[1], DummyData[2], DummyData[3]}

BoundedSeq(S, n) == UNION {[1..k -> S] : k \in 0..n}

Batches == BoundedSeq(SampleRows, MaxLen)
RunBatches == BoundedSeq(RunRows, MaxRunLen)

----------------------------------------------------------------------------
(* transform_and_model_data, line by line *)

\* fault variant of line 53: price < 0 in place of price <= 0
bad_data_mask_negative_only(r) == IsNull(r.customer_name) \/ r.price < 0

\* line 53: (df['customer_name'].isnull()) | (df['price'] <= 0)
bad_data_mask(r) == IsNull(r.customer_name) \/ r.price <= 0

\* boolean-mask selection df[mask]: the rows whose mask is true, in order
RECURSIVE MaskSelect(_, _)
MaskSelect(df, mask) ==
    IF df = <<>> THEN <<>>
    ELSE LET rest == MaskSelect(Tail(df), Tail(mask))
         IN  IF Head(mask) THEN <<Head(df)>> \o rest ELSE rest

MaskOf(df) == [i \in 1..Len(df) |-> bad_data_mask(df[i])]
Negate(mask) == [i \in 1..Len(mask) |-> ~mask[i]]

\* fault variant of line 56: the quarantine selects on the null test alone
QuarantineNullNamesOnly(df) ==
    MaskSelect(df, [i \in 1..Len(df) |-> IsNull(df[i].customer_name)])

\* line 56: df_quarantine = df[bad_data_mask]
Quarantine(df) == MaskSelect(df, MaskOf(df))

\* line 57: df_clean = df[~bad_data_mask].copy()
Clean(df) == MaskSelect(df, Negate(MaskOf(df)))

\* lines 60-62: to_csv only when df_quarantine is not empty
QuarantineWrite(file, dfq) == IF dfq # <<>> THEN dfq ELSE file

\* fault variant of line 65: the quantity is left out
TotalAmountPriceOnly(r) == r.price

\* line 65: df_clean['price'] * df_clean['quantity']
TotalAmount(r) == r.price * r.quantity

AddTotalAmount(dfc) ==
    [i \in 1..Len(dfc) |->
        [order_id |-> dfc[i].order_id, customer_name |-> dfc[i].customer_name,
         product |-> dfc[i].product, category |-> dfc[i].category,
         price |-> dfc[i].price, quantity |-> dfc[i].quantity,
         transaction_date |-> dfc[i].transaction_date,
         total_amount |-> TotalAmount(dfc[i])]]

\* line 71: the column selection [['product', 'category', 'price']]
DimColumns(r) == [product |-> r.product, category |-> r.category, price |-> r.price]

Project(dfc) == [i \in 1..Len(dfc) |-> DimColumns(dfc[i])]

\* fault variant of line 71: drop_duplicates() is left out
KeepDuplicates(s) == s

\* line 71: drop_duplicates() keeps the first occurrence of each row
RECURSIVE DropDuplicates(_)
DropDuplicates(s) ==
    IF s = <<>> THEN <<>>
    ELSE LET front == DropDuplicates(SubSeq(s, 1, Len(s) - 1))
             last  == s[Len(s)]
         IN  IF last \in Range(front) THEN front ELSE Append(front, last)

\* fault variant of line 73: the 0-based index itself
SurrogateKeyZeroBased(index) == index

\* line 73: dim_product.index + 1, the index being 0..n-1 after reset_index
SurrogateKey(index) == index + 1

\* lines 71-73
DimProduct(dfc) ==
    LET d == DropDuplicates(Project(dfc))
    IN  [i \in 1..Len(d) |->
            [product |-> d[i].product, category |-> d[i].category,
             price |-> d[i].price, product_id |-> SurrogateKey(i - 1)]]

\* fault variant of line 77: on=['product']
MergeOnProduct(r) == <<r.product>>

\* line 77: on=['product', 'category', 'price']
MergeOn(r) == <<r.product, r.category, r.price>>

\* the rows of the right frame that match one left row, in right order
RECURSIVE Matches(_, _)
Matches(l, right) ==
    IF right = <<>> THEN <<>>
    ELSE IF MergeOn(Head(right)) = MergeOn(l)
         THEN <<Head(right)>> \o Matches(l, Tail(right))
         ELSE Matches(l, Tail(right))

\* lines 77-80 for one left row: one fact row per matching right row, and
\* one row with a null product_id when nothing matches (how='left')
FactRow(l, pid) ==
    [order_id |-> l.order_id, transaction_date |-> l.transaction_date,
     customer_name |-> l.customer_name, product_id |-> pid,
     quantity |-> l.quantity, total_amount |-> l.total_amount]

RECURSIVE JoinRow(_, _)
JoinRow(l, ms) ==
    IF ms = <<>> THEN <<>>
    ELSE <<FactRow(l, Val(Head(ms).product_id))>> \o JoinRow(l, Tail(ms))

\* lines 77-80: left merge in left order, then the column projection
RECURSIVE FactSales(_, _)
FactSales(dfc, d) ==
    IF dfc = <<>> THEN <<>>
    ELSE LET ms == Matches(Head(dfc), d)
         IN  (IF ms = <<>> THEN <<FactRow(Head(dfc), Null)>>
              ELSE JoinRow(Head(dfc), ms))
             \o FactSales(Tail(dfc), d)

----------------------------------------------------------------------------
(* extract_data and load_data *)

\* fault variant of line 46: an empty frame is returned in place of None
ExtractResultEmptyFrame(file) == IF IsNull(file) THEN Val(<<>>) ELSE file

\* lines 40-46: the frame read, or None when pd.read_csv raises
ExtractResult(file) == IF IsNull(file) THEN Null ELSE file

\* fault variant of lines 91, 95: if_exists='append'
ToSqlAppend(table, frame) == table \o frame

\* to_sql(..., if_exists='replace'): the table becomes the frame
ToSql(table, frame) == frame

\* outcomes of load_data: every write succeeds; sqlite3.connect raises;
\* a to_sql raises before it has dropped the old table; a to_sql raises
\* after the drop that if_exists='replace' starts with
LoadOutcomes == {"ok", "connect_failed", "dim_failed", "dim_dropped",
                 "fact_failed", "fact_dropped"}

\* lines 87-101: the writes done before the exception stay, the fact_sales
\* write is not reached when the dim_product write raises
LoadResult(store, dim_df, fact_df, outcome) ==
    CASE outcome = "ok" ->
            [dim_product |-> ToSql(store.dim_product, dim_df),
             fact_sales  |-> ToSql(store.fact_sales, fact_df)]
      [] outcome = "fact_failed" ->
            [dim_product |-> ToSql(store.dim_product, dim_df),
             fact_sales  |-> store.fact_sales]
      [] outcome = "fact_dropped" ->
            [dim_product |-> ToSql(store.dim_product, dim_df),
             fact_sales  |-> <<>>]
      [] outcome = "dim_dropped" ->
            [dim_product |-> <<>>, fact_sales |-> store.fact_sales]
      [] outcome \in {"connect_failed", "dim_failed"} -> store

LoadLog(outcome) == IF outcome = "ok" THEN "completed" ELSE "failed"

----------------------------------------------------------------------------
(* The program *)

Init ==
    /\ pc = "start"
    /\ raw_file = Null
    /\ df_raw = Null
    /\ df_quarantine = <<>>
    /\ df_clean = <<>>
    /\ dim = <<>>
    /\ fact = <<>>
    /\ quarantine_file = <<>>
    /\ db = [dim_product |-> <<>>, fact_sales |-> <<>>]
    /\ log_load = "none"
    /\ prev_log = "none"
    /\ repeat = FALSE

\* lines 23-36, 105: the raw file is rewritten with the dummy rows
GenerateDummyData ==
    /\ pc = "start"
    /\ raw_file' = Val(DummyData)
    /\ repeat' = (raw_file' = raw_file)
    /\ pc' = "extract"
    /\ UNCHANGED <<df_raw, df_quarantine, df_clean, dim, fact,
                   quarantine_file, db, log_load, prev_log>>

\* RAW_FILE is an external source: what extract_data finds there is a
\* batch of the pool, or nothing readable
SourceDelivered(pool) ==
    /\ pc = "start"
    /\ \E f \in {Val(b) : b \in pool} \cup {Null} : raw_file' = f
    /\ repeat' = (raw_file' = raw_file)
    /\ pc' = "extract"
    /\ UNCHANGED <<df_raw, df_quarantine, df_clean, dim, fact,
                   quarantine_file, db, log_load, prev_log>>

\* lines 38-46, 107
ExtractData ==
    /\ pc = "extract"
    /\ df_raw' = ExtractResult(raw_file)
    /\ pc' = "check"
    /\ UNCHANGED <<raw_file, df_quarantine, df_clean, dim, fact,
                   quarantine_file, db, log_load, prev_log, repeat>>

\* lines 109-110, 48-83
TransformAndModelData ==
    /\ pc = "check"
    /\ ~IsNull(df_raw)
    /\ LET df  == Get(df_raw)
           dfq == Quarantine(df)
           dfc == AddTotalAmount(Clean(df))
           d   == DimProduct(dfc)
       IN  /\ df_quarantine' = dfq
           /\ quarantine_file' = QuarantineWrite(quarantine_file, dfq)
           /\ df_clean' = dfc
           /\ dim' = d
           /\ fact' = FactSales(dfc, d)
    /\ pc' = "load"
    /\ UNCHANGED <<raw_file, df_raw, db, log_load, prev_log, repeat>>

\* line 109: df_raw is None, the block is skipped
SkipRun ==
    /\ pc = "check"
    /\ IsNull(df_raw)
    /\ pc' = "done"
    /\ UNCHANGED <<raw_file, df_raw, df_quarantine, df_clean, dim, fact,
                   quarantine_file, db, log_load, prev_log, repeat>>

\* lines 111, 85-101: the exception is caught and logged, load_data returns
LoadData ==
    /\ pc = "load"
    /\ \E outcome \in LoadOutcomes :
          /\ db' = LoadResult(db, dim, fact, outcome)
          /\ log_load' = LoadLog(outcome)
    /\ pc' = "report"
    /\ UNCHANGED <<raw_file, df_raw, df_quarantine, df_clean, dim, fact,
                   quarantine_file, prev_log, repeat>>

\* lines 113-123
AnalyticsReport ==
    /\ pc = "report"
    /\ pc' = "done"
    /\ UNCHANGED <<raw_file, df_raw, df_quarantine, df_clean, dim, fact,
                   quarantine_file, db, log_load, prev_log, repeat>>

\* the script is invoked again: the files and the database persist
NextInvocation ==
    /\ pc = "done"
    /\ pc' = "start"
    /\ df_raw' = Null
    /\ df_quarantine' = <<>>
    /\ df_clean' = <<>>
    /\ dim' = <<>>
    /\ fact' = <<>>
    /\ log_load' = "none"
    /\ prev_log' = log_load
    /\ UNCHANGED <<raw_file, quarantine_file, db, repeat>>

\* one invocation on any batch of up to MaxLen sample rows
Next ==
    \/ GenerateDummyData
    \/ SourceDelivered(Batches)
    \/ ExtractData
    \/ TransformAndModelData
    \/ SkipRun
    \/ LoadData
    \/ AnalyticsReport

Spec == Init /\ [][Next]_vars

\* any number of invocations against the same files and database
NextRuns ==
    \/ GenerateDummyData
    \/ SourceDelivered(RunBatches)
    \/ ExtractData
    \/ TransformAndModelData
    \/ SkipRun
    \/ LoadData
    \/ AnalyticsReport
    \/ NextInvocation

SpecRuns == Init /\ [][NextRuns]_vars

----------------------------------------------------------------------------
(* Properties *)

\* the invocation has run transform_and_model_data on the batch in df_raw
Transformed == pc \in {"load", "report", "done"} /\ ~IsNull(df_raw)

Input == Get(df_raw)

\* the rows of s at the positions in S, in order
RECURSIVE RowsAt(_, _, _)
RowsAt(s, S, i) ==
    IF i > Len(s) THEN <<>>
    ELSE (IF i \in S THEN <<s[i]>> ELSE <<>>) \o RowsAt(s, S, i + 1)

\* a row of df_clean without the derived column
RawColumns(r) ==
    [order_id |-> r.order_id, customer_name |-> r.customer_name,
     product |-> r.product, category |-> r.category, price |-> r.price,
     quantity |-> r.quantity, transaction_date |-> r.transaction_date]

ValidBatch == [i \in 1..Len(df_clean) |-> RawColumns(df_clean[i])]

NaturalKey(r) == <<r.product, r.category, r.price>>

\* C1: the valid and invalid batches partition the input: the positions of
\* the input split into two disjoint sets whose rows, in input order and
\* with every field unchanged, are the invalid batch and the valid batch,
\* so the two lengths add up to the input's.
C1_PartitionTotal ==
    Transformed =>
        /\ Len(ValidBatch) + Len(df_quarantine) = Len(Input)
        /\ \E S \in SUBSET (1..Len(Input)) :
              /\ RowsAt(Input, S, 1) = df_quarantine
              /\ RowsAt(Input, (1..Len(Input)) \ S, 1) = ValidBatch

\* a valid row, an invalid row and a valid row again, both outputs non-empty
C1_Witness ==
    /\ Transformed
    /\ Len(Input) = 3
    /\ df_quarantine = <<Input[2]>>
    /\ ValidBatch = <<Input[1], Input[3]>>
    /\ Input[1] # Input[3]

\* C2: a row of the input is in the invalid batch iff its customer_name is
\* null or its price is <= 0, and in the valid batch iff neither holds,
\* whatever the other rows of the batch are.
C2_InvalidIff ==
    Transformed =>
        \A i \in 1..Len(Input) :
            LET r == Input[i]
                invalid == IsNull(r.customer_name) \/ r.price <= 0
            IN  /\ (r \in Range(df_quarantine)) <=> invalid
                /\ (r \in Range(ValidBatch)) <=> ~invalid

\* one batch holding a named row of price 0, a null-name row of positive
\* price, a named row of negative price and a valid row: the first three
\* are quarantined, the fourth is not
C2_Witness ==
    /\ Transformed
    /\ \E q \in Range(df_quarantine) : ~IsNull(q.customer_name) /\ q.price = 0
    /\ \E q \in Range(df_quarantine) : IsNull(q.customer_name) /\ q.price > 0
    /\ \E q \in Range(df_quarantine) : ~IsNull(q.customer_name) /\ q.price < 0
    /\ Len(df_clean) = 1

\* C3: the fact batch has one row per valid record, in the same order; each
\* fact row's product_id is not null and is the product_id of exactly one
\* dimension row, whose (product, category, price) is that of the fact
\* row's source record; records with equal tuples get equal product_ids.
C3_FactReferencesDim ==
    Transformed =>
        /\ Len(fact) = Len(df_clean)
        /\ \A i \in 1..Len(fact) :
              /\ fact[i].order_id = df_clean[i].order_id
              /\ ~IsNull(fact[i].product_id)
              /\ Cardinality({j \in 1..Len(dim) :
                                dim[j].product_id = Get(fact[i].product_id)}) = 1
              /\ \A j \in 1..Len(dim) :
                    dim[j].product_id = Get(fact[i].product_id)
                        => NaturalKey(dim[j]) = NaturalKey(df_clean[i])
        /\ \A i, k \in 1..Len(fact) :
              NaturalKey(df_clean[i]) = NaturalKey(df_clean[k])
                  => fact[i].product_id = fact[k].product_id

\* two fact rows of different orders share a product_id, a third has another
C3_Witness ==
    /\ Transformed
    /\ \E i, k, m \in 1..Len(fact) :
          /\ fact[i].order_id # fact[k].order_id
          /\ fact[i].product_id = fact[k].product_id
          /\ fact[m].product_id # fact[i].product_id

\* position of the first valid record with natural key t
FirstSeen(t) ==
    CHOOSE i \in 1..Len(df_clean) :
        /\ NaturalKey(df_clean[i]) = t
        /\ \A k \in 1..(i - 1) : NaturalKey(df_clean[k]) # t

\* C4: the product_ids of the dimension are exactly 1..len(dimension), one
\* each, and a dimension row has a smaller product_id than another iff its
\* tuple first occurs earlier in the valid batch.
C4_DenseFirstSeen ==
    Transformed =>
        /\ {dim[j].product_id : j \in 1..Len(dim)} = 1..Len(dim)
        /\ \A j \in 1..Len(dim) :
              \E i \in 1..Len(df_clean) : NaturalKey(df_clean[i]) = NaturalKey(dim[j])
        /\ \A a, b \in 1..Len(dim) :
              (dim[a].product_id < dim[b].product_id)
                  <=> (FirstSeen(NaturalKey(dim[a])) < FirstSeen(NaturalKey(dim[b])))

\* a tuple, another tuple, the first tuple again: ids 1 and 2 are assigned
C4_Witness ==
    /\ Transformed
    /\ Len(df_clean) = 3
    /\ NaturalKey(df_clean[1]) = NaturalKey(df_clean[3])
    /\ NaturalKey(df_clean[1]) # NaturalKey(df_clean[2])
    /\ Len(dim) = 2

Distinct(s) == \A i, k \in 1..Len(s) : i # k => s[i] # s[k]

ValidKeys == [i \in 1..Len(df_clean) |-> NaturalKey(df_clean[i])]

\* C5: the tuples of the dimension are exactly the tuples of the valid
\* batch, each once; len(dimension) <= len(valid) with equality iff the
\* valid records have pairwise distinct tuples; no valid record, no row.
C5_DimensionDeduplicated ==
    Transformed =>
        /\ {NaturalKey(dim[j]) : j \in 1..Len(dim)} = Range(ValidKeys)
        /\ Distinct([j \in 1..Len(dim) |-> NaturalKey(dim[j])])
        /\ Len(dim) <= Len(df_clean)
        /\ (Len(dim) = Len(df_clean)) <=> Distinct(ValidKeys)
        /\ (df_clean = <<>> => dim = <<>>)

\* a valid batch with a repeated tuple and a second tuple
C5_Witness ==
    /\ Transformed
    /\ Len(dim) >= 2
    /\ Len(dim) < Len(df_clean)

\* the valid records of the input, selected by the rule of the specification
ValidInput ==
    SelectSeq(Input, LAMBDA r : ~(IsNull(r.customer_name) \/ r.price <= 0))

Sinks == <<quarantine_file, db>>

\* C7: when the source is unreadable, the invocation goes from the failed
\* extract_data straight to its end: no step of it is a call of
\* transform_and_model_data or load_data, and no step of it changes the
\* quarantine file or the database.
C7_UnreadableSourceAborts ==
    [][ (IsNull(raw_file) /\ pc \in {"extract", "check", "load", "report"}) =>
            /\ Sinks' = Sinks
            /\ pc = "extract" => pc' = "check"
            /\ pc = "check" => pc' = "done"
            /\ pc \notin {"load", "report"} ]_vars

\* an invocation that found the source unreadable has ended and the sinks
\* hold what an earlier invocation wrote
C7_Witness ==
    /\ pc = "done"
    /\ IsNull(raw_file)
    /\ IsNull(df_raw)
    /\ quarantine_file # <<>>
    /\ db.dim_product # <<>>
    /\ db.fact_sales # <<>>

\* C8: after a failed write in load_data the invocation does not go on to
\* the analytics report as it does after a successful load.
C8_LoadFailureSurfaced == log_load = "failed" => pc # "report"

\* this invocation reads the source the previous one read, and the previous
\* one loaded both tables
SecondRun == repeat /\ prev_log = "completed" /\ ~IsNull(df_raw)

InvalidInput ==
    SelectSeq(Input, LAMBDA r : IsNull(r.customer_name) \/ r.price <= 0)

\* C10: after a completed run the quarantine file holds exactly the invalid
\* records of that run's input, in input order.
C10_QuarantineOfLastRun == Transformed => quarantine_file = InvalidInput

=============================================================================
